---- MODULE Spec2Model ----
(***************************************************************************)
(* Leader/follower teleoperation over STS3215 smart servos.                *)
(*                                                                         *)
(*   SpecArm  two LeaderArm instances (calibration state and its files)    *)
(*   Spec     DualTeleopSystem: __init__, run, the 50 Hz loop, cleanup     *)
(*   SpecTeleop  TeleopSystem of teleop_main.py: one pairing, kept in the  *)
(*            "left" slot of the per-side variables                        *)
(*   SpecLoc  AutoPortFinder.find_ports and find_port on any enumeration   *)
(*   SpecRx   STSServoDriver.get_position, one exchange byte by byte       *)
(*   SpecRxLive  the same exchange on a bus that may never fall silent,    *)
(*            with fairness, for termination                               *)
(*   SpecCall single calls of _write_packet, _read_response, the angle     *)
(*            computation, save/load and set_direction on chosen arguments *)
(*                                                                         *)
(* Angles are kept in hundredths of a degree (the code rounds to 2         *)
(* decimals), radians and gripper ratios in 1/10000.                       *)
(***************************************************************************)
EXTENDS Integers, Sequences, FiniteSets, TLC

----------------------------------------------------------------------------
(* Shared values *)

Sides == {"left", "right"}
ServoIds == 1 .. 7
RotationalJoints == 1 .. 6
GripperJoint == 7

DEFAULT_CONFIG_FILE == "leader_config.json"
config_file ==
    [left |-> "leader_left_config.json", right |-> "leader_right_config.json"]
Paths == {DEFAULT_CONFIG_FILE} \cup {config_file[s] : s \in Sides}

\* get_position's "read failed" value
UNAVAILABLE == -1

\* Python's None / a present value
None == << >>
Some(v) == << v >>

DEFAULT_OFFSET == 2048
DEFAULT_DIRECTION == 1
HALF_TURN == 2048
FULL_TURN == 4096

EmptyDict == [k \in {} |-> 0]

\* dict.get(k, default)
Get(d, k, default) == IF k \in DOMAIN d THEN d[k] ELSE default

Abs(n) == IF n < 0 THEN 0 - n ELSE n

\* round-half-even of n/d (d > 0), symmetric about zero: Python's round()
\* on a value that is exact in binary floating point
RoundHalfEven(n, d) ==
    LET a == Abs(n)
        q == a \div d
        r == a % d
        up == (2 * r > d) \/ (2 * r = d /\ q % 2 = 1)
        m == IF up THEN q + 1 ELSE q
    IN  IF n < 0 THEN 0 - m ELSE m

----------------------------------------------------------------------------
(* Calibration file: JSON object with string keys *)

KeyStr == << "1", "2", "3", "4", "5", "6", "7" >>
IntOfKey(k) == CHOOSE i \in DOMAIN KeyStr : KeyStr[i] = k

\* a file: whether it exists, whether json.load gives an object, and the two
\* sections (a section the object lacks reads as the empty dict, line 165)
NoFile ==
    [exists |-> FALSE, valid |-> FALSE, home_offsets |-> EmptyDict,
     directions |-> EmptyDict]

\* a file json.load raises on
Unparsable ==
    [exists |-> TRUE, valid |-> FALSE, home_offsets |-> EmptyDict,
     directions |-> EmptyDict]

\* int(k) succeeds for every key of the section
IntKeys(j) == DOMAIN j \subseteq {KeyStr[i] : i \in DOMAIN KeyStr}

\* json.dump of a dict with int keys: the keys become strings
DumpDict(d) == [k \in {KeyStr[i] : i \in DOMAIN d} |-> d[IntOfKey(k)]]

\* {int(k): v for k, v in section.items()}
ParseDict(j) == [i \in {IntOfKey(k) : k \in DOMAIN j} |-> j[KeyStr[i]]]

ConfigJson(ho, dr) ==
    [exists |-> TRUE, valid |-> TRUE, home_offsets |-> DumpDict(ho),
     directions |-> DumpDict(dr)]

\* the path the effective save_config / load_config open
SavePath(a) == DEFAULT_CONFIG_FILE
LoadPath(a) == DEFAULT_CONFIG_FILE

----------------------------------------------------------------------------
(* Inputs *)

\* raw encoder values the servos report in a successful read
RawSamples == {100, 4000}

\* one get_raw_positions() result: every servo answers with the same value,
\* or every servo answers but one
AllAt(v) == [i \in ServoIds |-> v]
OneFails(v, k) == [i \in ServoIds |-> IF i = k THEN UNAVAILABLE ELSE v]
Readings ==
    {AllAt(v) : v \in RawSamples} \cup {OneFails(100, k) : k \in ServoIds}

\* calibration files that may exist before the program starts
InitFiles ==
    { [p \in Paths |->
         IF p \in present
         THEN ConfigJson(AllAt(IF p = DEFAULT_CONFIG_FILE THEN 500
                               ELSE IF p = config_file["left"] THEN 1000
                               ELSE 3000),
                         [i \in ServoIds |-> IF p = config_file["right"]
                                             THEN -1 ELSE 1])
         ELSE NoFile] : present \in SUBSET Paths }

\* an object edited by hand: only some ids, only one section, a key that is
\* no number, a direction that is no sign
HandEdited ==
    { [exists |-> TRUE, valid |-> TRUE, home_offsets |-> h, directions |-> d] :
        << h, d >> \in
          { << [k \in {"1"} |-> 1000], EmptyDict >>,
            << EmptyDict, [k \in {"1", "2"} |-> -1] >>,
            << EmptyDict, [k \in {"3"} |-> 0] >>,
            << [k \in {"1", "2"} |-> 1000], [k \in {"1", "x"} |-> -1] >>,
            << [k \in {"1", "x"} |-> 1000], [k \in {"1"} |-> -1] >> } }

\* calibration files a LeaderArm may find: those of InitFiles, or a single
\* file, the one it opens, unparsable or hand-edited
ArmFiles ==
    InitFiles \cup
    { [p \in Paths |-> IF p = DEFAULT_CONFIG_FILE THEN f ELSE NoFile] :
        f \in {Unparsable} \cup HandEdited }

\* arguments of set_direction
SetDirIds == {1, 7}
SetDirValues == {1, -1, 0}

----------------------------------------------------------------------------
VARIABLES
    leader,         \* per side: "none" | "open" | "closed" (LeaderArm.driver.ser)
    home_offsets,   \* per side: LeaderArm.home_offsets
    directions,     \* per side: LeaderArm.directions
    files,          \* file system: path -> content
    calib_ret       \* per side: what the last calibrate_home call did and
                    \* returned, and the positions it took as offsets

armVars == << leader, home_offsets, directions, files, calib_ret >>

VARIABLES
    pc,             \* DualTeleopSystem: where the program is, [at, side]
    ports,          \* serial.tools.list_ports.comports(): the enumeration
    found_ports,    \* find_ports' result: role -> None | Some(device)
    arms,           \* self.arms: side -> "unset" | "None" | "pair"
    follower,       \* per side: "none" | "partial" | "connected" | "closed"
    setup_log,      \* per side: setup_arm_pair calls and how each step went
    tick,           \* per side: what this tick read and dispatched
    cleanup_log,    \* per side: whether cleanup ran for it and what raised
    interrupted     \* a KeyboardInterrupt was delivered during run()

sysVars == << pc, ports, found_ports, arms, follower, setup_log, tick,
              cleanup_log, interrupted >>

VARIABLES
    rx_pc,          \* get_position: "idle" | "call" | "scan" | "parse" | "return" | "done"
    ser,            \* STSServoDriver.ser: "none" | "open" | "closed"
    rx_in,          \* what the bus sends after the request: stray bytes, frame
    wire,           \* the bytes of rx_in not yet read
    elapsed,        \* time.time() - start_time, in ticks
    header_count,   \* _read_response's header_count
    tx,             \* the request frame written (None: nothing written)
    rx_resp,        \* what _read_response returned, and by which return
    position,       \* what get_position returned
    angle           \* get_angles' entry for that position

rxVars == << rx_pc, ser, rx_in, wire, elapsed, header_count, tx, rx_resp,
             position, angle >>

VARIABLES
    loc_pc,         \* locator: "idle" | "scan" | "done"
    loc_enum,       \* the enumeration handed to the locator
    loc_targets,    \* role -> identifier
    loc_found       \* role -> what find_ports and find_port resolved

locVars == << loc_pc, loc_enum, loc_targets, loc_found >>

VARIABLES
    call,           \* one call of a function of the program: its name and arguments
    result          \* what the call returned or wrote (None: not yet made)

callVars == << call, result >>

vars == << armVars, sysVars, rxVars, locVars, callVars >>

----------------------------------------------------------------------------
(* LeaderArm *)

\* load_config without the file
load_nothing(a, ho, dr) == << ho, dr >>

\* lines 159-171: replaces both dicts by what the file holds
load_config(a, ho, dr) ==
    LET f == files[LoadPath(a)]
    IN  IF ~f.exists THEN << ho, dr >>
        \* json.load raises: line 168
        ELSE IF ~f.valid THEN << ho, dr >>
        \* int(k) raises at line 165: nothing assigned yet
        ELSE IF ~IntKeys(f.home_offsets) THEN << ho, dr >>
        \* int(k) raises at line 166: home_offsets is assigned already
        ELSE IF ~IntKeys(f.directions) THEN << ParseDict(f.home_offsets), dr >>
        ELSE << ParseDict(f.home_offsets), ParseDict(f.directions) >>

\* lines 168-169: the except branch is taken, "Failed to load config"
LoadReportsError(a) ==
    LET f == files[LoadPath(a)]
    IN  /\ f.exists
        /\ \/ ~f.valid
           \/ ~IntKeys(f.home_offsets)
           \/ ~IntKeys(f.directions)

\* lines 150-157
save_config(a, ho, dr) ==
    [files EXCEPT ![SavePath(a)] = ConfigJson(ho, dr)]

\* calibrate_home's new offsets with servo 1 left at the default
StaleOffsets(current_pos) ==
    [sid \in DOMAIN current_pos |->
        IF sid = 1 THEN DEFAULT_OFFSET ELSE current_pos[sid]]

\* line 137: the positions just read become the offsets
NewOffsets(current_pos) == current_pos

\* AngleOf without the test for the failed read
AngleOfUnchecked(raw_val, offset, direction) ==
    LET d0 == raw_val - offset
        delta == IF d0 > HALF_TURN THEN d0 - FULL_TURN
                 ELSE IF d0 < 0 - HALF_TURN THEN d0 + FULL_TURN
                 ELSE d0
    IN  Some(RoundHalfEven(delta * 1125 * direction, 128))

\* WrapDelta without the wraparound adjustment
PlainDelta(raw_val, offset) == raw_val - offset

\* lines 95-105: delta after the wraparound adjustment
WrapDelta(raw_val, offset) ==
    LET d0 == raw_val - offset
    IN  IF d0 > HALF_TURN THEN d0 - FULL_TURN
        ELSE IF d0 < 0 - HALF_TURN THEN d0 + FULL_TURN
        ELSE d0

\* lines 86-115, one servo
AngleOf(raw_val, offset, direction) ==
    IF raw_val = UNAVAILABLE
    THEN None
    ELSE Some(RoundHalfEven(WrapDelta(raw_val, offset) * 1125 * direction, 128))

\* lines 84-117 for an arm whose calibration state is ho, dr
AnglesWith(ho, dr, raw_data) ==
    [sid \in DOMAIN raw_data |->
        AngleOf(raw_data[sid],
                Get(ho, sid, DEFAULT_OFFSET),
                Get(dr, sid, DEFAULT_DIRECTION))]

\* lines 78-117
get_angles(a, raw_data) == AnglesWith(home_offsets[a], directions[a], raw_data)

AnyUnavailable(current_pos) ==
    \E sid \in DOMAIN current_pos : current_pos[sid] = UNAVAILABLE

\* the value calibrate_home hands back: line 135 `return`, and falling off
\* the end at line 140
CalibrateReturn(aborted) == "None"

\* LeaderArm.__init__, lines 25-28: the defaults, then load_config
InitialCalibration(a) ==
    load_config(a, [i \in ServoIds |-> DEFAULT_OFFSET],
                   [i \in ServoIds |-> DEFAULT_DIRECTION])

\* LeaderArm.__init__, lines 17-30 (the port opened)
Construct(a) ==
    LET loaded == InitialCalibration(a)
    IN  /\ leader' = [leader EXCEPT ![a] = "open"]
        /\ home_offsets' = [home_offsets EXCEPT ![a] = loaded[1]]
        /\ directions' = [directions EXCEPT ![a] = loaded[2]]
        /\ UNCHANGED files

\* lines 121-140
calibrate_home(a, current_pos) ==
    IF AnyUnavailable(current_pos)
    THEN /\ calib_ret' = [calib_ret EXCEPT ![a] =
                [outcome |-> "aborted", ret |-> CalibrateReturn(TRUE),
                 read |-> None]]
         /\ UNCHANGED << home_offsets, directions, files >>
    ELSE /\ home_offsets' = [home_offsets EXCEPT ![a] = NewOffsets(current_pos)]
         /\ files' = save_config(a, NewOffsets(current_pos), directions[a])
         /\ calib_ret' = [calib_ret EXCEPT ![a] =
                [outcome |-> "saved", ret |-> CalibrateReturn(FALSE),
                 read |-> Some(current_pos)]]
         /\ UNCHANGED directions

\* ValidDirection with every value let through
AcceptsAny(direction) == TRUE

\* line 144: direction in [1, -1]
ValidDirection(direction) == direction \in {1, -1}

\* lines 142-148
set_direction(a, servo_id, direction) ==
    IF ~ValidDirection(direction)
    THEN UNCHANGED << home_offsets, directions, files >>
    ELSE LET dr == [i \in (DOMAIN directions[a]) \cup {servo_id} |->
                        IF i = servo_id THEN direction ELSE directions[a][i]]
         IN  /\ directions' = [directions EXCEPT ![a] = dr]
             /\ files' = save_config(a, home_offsets[a], dr)
             /\ UNCHANGED home_offsets

NotCalled == [outcome |-> "not_called", ret |-> "None", read |-> None]

----------------------------------------------------------------------------
(* Device locator: teleop_dual_main.AutoPortFinder *)

\* strings that are searched or compared character by character
Str5A68012049 == << "5", "A", "6", "8", "0", "1", "2", "0", "4", "9" >>
Str5A68009611 == << "5", "A", "6", "8", "0", "0", "9", "6", "1", "1" >>
Str1_9_1 == << "1", "-", "9", ".", "1", ":", "1", ".", "0" >>
Str1_7 == << "1", "-", "7", ":", "1", ".", "0" >>
StrShared == << "0", "0", "0", "1" >>
EmptyStr == << >>

DEVICE_ID_CFG ==
    [left_leader |-> Str5A68012049, right_leader |-> Str5A68009611,
     left_follower |-> Str1_9_1, right_follower |-> Str1_7]

LeaderRole == [left |-> "left_leader", right |-> "right_leader"]
FollowerRole == [left |-> "left_follower", right |-> "right_follower"]

\* `x if x else ""`
OrEmpty(opt) == IF opt = None THEN EmptyStr ELSE opt[1]

\* MatchesExact with the location test left out
MatchesSerialOnly(p, target_id) == target_id = OrEmpty(p.serial_number)

\* lines 63-74: the device matches by serial number or by location
MatchesExact(p, target_id) ==
    \/ target_id = OrEmpty(p.serial_number)
    \/ target_id = OrEmpty(p.location)

RECURSIVE MatchedDev(_, _)
\* lines 57-80: the loop over the enumeration, left at the first match
MatchedDev(target_id, enum) ==
    IF enum = << >> THEN None
    ELSE IF MatchesExact(Head(enum), target_id) THEN Some(Head(enum).device)
    ELSE MatchedDev(target_id, Tail(enum))

\* lines 42-83
find_ports(target_map, enum) ==
    [name \in DOMAIN target_map |-> MatchedDev(target_map[name], enum)]

\* all_success true as soon as one role resolved
any_success(found) == \E name \in DOMAIN found : found[name] # None

\* lines 54, 76-81: the flag is cleared for every role left without a device
all_success(found) == \A name \in DOMAIN found : found[name] # None

\* the four devices of the rig, in the order the system lists them
RigDevices ==
    << [device |-> "/dev/ttyACM0", serial_number |-> Some(Str5A68012049),
        location |-> Some(<< "1", "-", "3", ":", "1", ".", "0" >>)],
       [device |-> "/dev/ttyACM1", serial_number |-> Some(StrShared),
        location |-> Some(Str1_9_1)],
       [device |-> "/dev/ttyACM2", serial_number |-> Some(Str5A68009611),
        location |-> None],
       [device |-> "/dev/ttyACM3", serial_number |-> Some(StrShared),
        location |-> Some(Str1_7)] >>

RECURSIVE Keep(_, _)
\* the subsequence of enum whose positions are in keep
Keep(enum, keep) ==
    IF enum = << >> THEN << >>
    ELSE LET rest == Keep(Tail(enum), {i - 1 : i \in keep \ {1}})
         IN  IF 1 \in keep THEN << Head(enum) >> \o rest ELSE rest

\* the rig with the left follower unplugged and the left leader plugged
\* into the hub port the left follower is configured with
Misplugged ==
    << [device |-> "/dev/ttyACM0", serial_number |-> Some(Str5A68012049),
        location |-> Some(Str1_9_1)] >> \o Keep(RigDevices, {3, 4})

\* enumerations: every device attached, one unplugged, none attached, or
\* the misplugged rig
PortEnums ==
    {Keep(RigDevices, (1 .. 4) \ gone) :
        gone \in {{}} \cup {{i} : i \in 1 .. 4} \cup {1 .. 4}}
      \cup {Misplugged}

----------------------------------------------------------------------------
(* DualTeleopSystem *)

GRIPPER_CFG ==
    [left |-> [open |-> 5000, close |-> 0], right |-> [open |-> 5000, close |-> 0]]
DIR_CFG == [left |-> [i \in ServoIds |-> 1], right |-> [i \in ServoIds |-> 1]]

\* 0.1 degree
MIN_SPAN == 10
\* the follower's unit: 1/10000 rad, 1/10000 of the gripper stroke
UNIT == 10000

\* lines 148-149: deg * (pi / 180)
deg_to_rad(deg) == RoundHalfEven(deg * 31416, 18000)

\* gripper_ratio without np.clip
ratio_unclipped(raw_deg, open, close) ==
    LET span == close - open
        num == IF span < 0 THEN open - raw_deg ELSE raw_deg - open
        den == Abs(span)
    IN  IF den < MIN_SPAN THEN 0
        ELSE RoundHalfEven(num * UNIT, den)

\* lines 153-156: the ratio for a gripper whose range is open..close
gripper_ratio(raw_deg, open, close) ==
    LET span == close - open
        num == IF span < 0 THEN open - raw_deg ELSE raw_deg - open
        den == Abs(span)
    IN  IF den < MIN_SPAN THEN 0
        ELSE IF num <= 0 THEN 0
        ELSE IF num >= den THEN UNIT
        ELSE RoundHalfEven(num * UNIT, den)

\* lines 151-156
map_gripper(raw_deg, side) ==
    gripper_ratio(raw_deg, GRIPPER_CFG[side].open, GRIPPER_CFG[side].close)

HasNone(leader_angles) ==
    \E sid \in DOMAIN leader_angles : leader_angles[sid] = None

\* lines 168-176: the vector handed to send_action
ActionVector(side, leader_angles) ==
    [i \in ServoIds |->
        DIR_CFG[side][i] *
            (IF i \in RotationalJoints
             THEN deg_to_rad(leader_angles[i][1])
             ELSE map_gripper(leader_angles[GripperJoint][1], side))]

At(where, side) == [at |-> where, side |-> side]
NoTick == [raw |-> None, sent |-> None]
NoSetup == [calls |-> 0, leader |-> "-", follower |-> "-"]
NoCleanup == [ran |-> FALSE, raised |-> "-"]

NoResp == [resp |-> None, by |-> "-"]
NoRxIn == [stray |-> << >>, frame |-> << >>, sent |-> 0, noise |-> "silent"]

RxIdle ==
    /\ rx_pc = "idle"
    /\ ser = "none"
    /\ rx_in = NoRxIn
    /\ wire = << >>
    /\ elapsed = 0
    /\ header_count = 0
    /\ tx = None
    /\ rx_resp = NoResp
    /\ position = UNAVAILABLE
    /\ angle = None

NoCall == [op |-> "-"]

CallIdle ==
    /\ call = NoCall
    /\ result = None

LocIdle ==
    /\ loc_pc = "idle"
    /\ loc_enum = << >>
    /\ loc_targets = << >>
    /\ loc_found = << >>

SysIdle ==
    /\ pc = At("idle", "-")
    /\ ports = << >>
    /\ found_ports = [name \in DOMAIN DEVICE_ID_CFG |-> None]
    /\ arms = [s \in Sides |-> "unset"]
    /\ follower = [s \in Sides |-> "none"]
    /\ setup_log = [s \in Sides |-> NoSetup]
    /\ tick = [s \in Sides |-> NoTick]
    /\ cleanup_log = [s \in Sides |-> NoCleanup]
    /\ interrupted = FALSE

Init ==
    /\ leader = [a \in Sides |-> "none"]
    /\ home_offsets = [a \in Sides |-> EmptyDict]
    /\ directions = [a \in Sides |-> EmptyDict]
    /\ calib_ret = [a \in Sides |-> NotCalled]
    /\ files \in InitFiles
    /\ pc = At("find_ports", "-")
    /\ ports \in PortEnums
    /\ found_ports = [name \in DOMAIN DEVICE_ID_CFG |-> None]
    /\ arms = [s \in Sides |-> "unset"]
    /\ follower = [s \in Sides |-> "none"]
    /\ setup_log = [s \in Sides |-> NoSetup]
    /\ tick = [s \in Sides |-> NoTick]
    /\ cleanup_log = [s \in Sides |-> NoCleanup]
    /\ interrupted = FALSE
    /\ RxIdle
    /\ LocIdle
    /\ CallIdle

\* __init__, line 93
FindPorts ==
    /\ pc = At("find_ports", "-")
    /\ found_ports' = find_ports(DEVICE_ID_CFG, ports)
    /\ pc' = At("setup", "left")
    /\ UNCHANGED << armVars, ports, arms, follower, setup_log, tick,
                    cleanup_log, interrupted >>
    /\ UNCHANGED << rxVars, locVars >>
    /\ UNCHANGED callVars

\* lines 99, 112
BothResolved(side) ==
    /\ found_ports[LeaderRole[side]] # None
    /\ found_ports[FollowerRole[side]] # None

\* NoActiveArms with `or` for `and`
AnyArmMissing(a) == a["left"] # "pair" \/ a["right"] # "pair"

\* lines 124-126
NoActiveArms(a) == a["left"] # "pair" /\ a["right"] # "pair"

\* after the left arm the right one; after the right one, lines 124-126
AfterSetup(side, a) ==
    IF side = "left" THEN At("setup", "right")
    ELSE IF NoActiveArms(a) THEN At("exited", "-")
    ELSE At("wait_enter", "-")

\* lines 128-146, with what the hardware answers at each step
setup_arm_pair(side, leader_step, follower_step) ==
    LET loaded == InitialCalibration(side)
    IN  /\ setup_log' = [setup_log EXCEPT ![side] =
                [calls |-> @.calls + 1, leader |-> leader_step,
                 follower |-> IF leader_step = "ok" THEN follower_step ELSE "-"]]
        /\ IF leader_step = "open_fails"
           THEN /\ arms' = [arms EXCEPT ![side] = "None"]
                /\ UNCHANGED << leader, home_offsets, directions, follower >>
           ELSE /\ home_offsets' = [home_offsets EXCEPT ![side] = loaded[1]]
                /\ directions' = [directions EXCEPT ![side] = loaded[2]]
                /\ IF leader_step = "torque_raises"
                   THEN /\ arms' = [arms EXCEPT ![side] = "None"]
                        /\ leader' = [leader EXCEPT ![side] = "open"]
                        /\ UNCHANGED follower
                   ELSE IF follower_step = "ok"
                   THEN /\ arms' = [arms EXCEPT ![side] = "pair"]
                        /\ leader' = [leader EXCEPT ![side] = "open"]
                        /\ follower' = [follower EXCEPT ![side] = "connected"]
                   ELSE /\ arms' = [arms EXCEPT ![side] = "None"]
                        /\ leader' = [leader EXCEPT ![side] = "closed"]
                        /\ follower' = [follower EXCEPT ![side] =
                               IF follower_step = "connect_raises"
                               THEN "partial" ELSE "none"]
        /\ UNCHANGED << files, calib_ret >>

LeaderSteps == {"ok", "open_fails", "torque_raises"}
FollowerSteps == {"ok", "ctor_raises", "connect_raises"}

\* __init__, lines 99-126
SetupArm(side) ==
    /\ pc = At("setup", side)
    /\ IF BothResolved(side)
       THEN \E ls \in LeaderSteps, fs \in FollowerSteps :
                setup_arm_pair(side, ls, fs)
       ELSE /\ arms' = [arms EXCEPT ![side] = "None"]
            /\ UNCHANGED << armVars, follower, setup_log >>
    /\ pc' = AfterSetup(side, arms')
    /\ UNCHANGED << ports, found_ports, tick, cleanup_log, interrupted >>
    /\ UNCHANGED << rxVars, locVars >>
    /\ UNCHANGED callVars

\* run(), line 185: the operator presses Enter
PressEnter ==
    /\ pc = At("wait_enter", "-")
    /\ pc' = At("calibrate", "left")
    /\ UNCHANGED << armVars, ports, found_ports, arms, follower, setup_log,
                    tick, cleanup_log, interrupted >>
    /\ UNCHANGED << rxVars, locVars >>
    /\ UNCHANGED callVars

\* run(), lines 186-189
Calibrate(side) ==
    /\ pc = At("calibrate", side)
    /\ IF arms[side] = "pair"
       THEN \E r \in Readings : calibrate_home(side, r)
       ELSE UNCHANGED << home_offsets, directions, files, calib_ret >>
    /\ pc' = IF side = "left" THEN At("calibrate", "right") ELSE At("loop", "left")
    /\ UNCHANGED << leader, ports, found_ports, arms, follower, setup_log,
                    tick, cleanup_log, interrupted >>
    /\ UNCHANGED << rxVars, locVars >>
    /\ UNCHANGED callVars

\* lines 158-178, with what send_action does; next: where run() goes on
process_single_arm(side, raw_data, send_raises, next) ==
    LET leader_angles == get_angles(side, raw_data)
    IN  IF arms[side] # "pair"
        THEN /\ pc' = next
             /\ UNCHANGED tick
        ELSE IF HasNone(leader_angles)
        THEN /\ tick' = [tick EXCEPT ![side] = [raw |-> Some(raw_data), sent |-> None]]
             /\ pc' = next
        ELSE IF send_raises
        THEN /\ tick' = [tick EXCEPT ![side] = [raw |-> Some(raw_data), sent |-> None]]
             /\ pc' = At("cleanup", "left")
        ELSE /\ tick' = [tick EXCEPT ![side] =
                    [raw |-> Some(raw_data),
                     sent |-> Some(ActionVector(side, leader_angles))]]
             /\ pc' = next

\* run(), lines 195-196: one pairing's share of the tick
ProcessArm(side) ==
    /\ pc = At("loop", side)
    /\ \E r \in Readings, send_raises \in BOOLEAN :
          process_single_arm(side, r, send_raises,
              IF side = "left" THEN At("loop", "right") ELSE At("pace", "-"))
    /\ UNCHANGED << armVars, ports, found_ports, arms, follower, setup_log,
                    cleanup_log, interrupted >>
    /\ UNCHANGED << rxVars, locVars >>
    /\ UNCHANGED callVars

\* run(), lines 198-200 and back to line 192
Pace ==
    /\ pc = At("pace", "-")
    /\ tick' = [s \in Sides |-> NoTick]
    /\ pc' = At("loop", "left")
    /\ UNCHANGED << armVars, ports, found_ports, arms, follower, setup_log,
                    cleanup_log, interrupted >>
    /\ UNCHANGED << rxVars, locVars >>
    /\ UNCHANGED callVars

\* KeyboardInterrupt at lines 185-189: outside the try statement
InterruptBeforeLoop ==
    /\ pc.at \in {"wait_enter", "calibrate"}
    /\ pc' = At("terminated", "-")
    /\ interrupted' = TRUE
    /\ UNCHANGED << armVars, ports, found_ports, arms, follower, setup_log,
                    tick, cleanup_log >>
    /\ UNCHANGED << rxVars, locVars >>
    /\ UNCHANGED callVars

\* KeyboardInterrupt at lines 192-200: lines 202-205
InterruptInLoop ==
    /\ pc.at \in {"loop", "pace"}
    /\ pc' = At("cleanup", "left")
    /\ interrupted' = TRUE
    /\ UNCHANGED << armVars, ports, found_ports, arms, follower, setup_log,
                    tick, cleanup_log >>
    /\ UNCHANGED << rxVars, locVars >>
    /\ UNCHANGED callVars

\* CleanupContinues without the try statement: a raise leaves cleanup()
CleanupPropagates(raised) == raised = "none"

\* line 213: `except: pass` swallows whatever a close raised
CleanupContinues(raised) == TRUE

\* cleanup(), lines 207-213, for one pairing
Cleanup(side) ==
    /\ pc = At("cleanup", side)
    /\ IF arms[side] = "pair"
       THEN \E raised \in {"none", "leader_close", "follower_close"} :
              /\ leader' = [leader EXCEPT ![side] =
                     IF raised = "leader_close" THEN @ ELSE "closed"]
              /\ follower' = [follower EXCEPT ![side] =
                     IF raised = "none" THEN "closed" ELSE @]
              /\ cleanup_log' = [cleanup_log EXCEPT ![side] =
                     [ran |-> TRUE, raised |-> raised]]
              /\ pc' = IF ~CleanupContinues(raised) /\ raised # "none"
                       THEN At("terminated", "-")
                       ELSE IF side = "left" THEN At("cleanup", "right")
                       ELSE At("done", "-")
       ELSE /\ pc' = IF side = "left" THEN At("cleanup", "right")
                     ELSE At("done", "-")
            /\ UNCHANGED << leader, follower, cleanup_log >>
    /\ UNCHANGED << home_offsets, directions, files, calib_ret, ports,
                    found_ports, arms, setup_log, tick, interrupted >>
    /\ UNCHANGED << rxVars, locVars >>
    /\ UNCHANGED callVars

Next ==
    \/ FindPorts
    \/ \E side \in Sides : SetupArm(side)
    \/ PressEnter
    \/ \E side \in Sides : Calibrate(side)
    \/ \E side \in Sides : ProcessArm(side)
    \/ Pace
    \/ InterruptBeforeLoop
    \/ InterruptInLoop
    \/ \E side \in Sides : Cleanup(side)

Spec == Init /\ [][Next]_vars

----------------------------------------------------------------------------
(* SpecTeleop: TeleopSystem of teleop_main.py, its pairing in slot "left" *)

LEADER_GRIPPER_OPEN_DEG == 5000
LEADER_GRIPPER_CLOSE_DEG == 0
MAPPING_DIRECTION == [i \in ServoIds |-> IF i = 5 THEN -1 ELSE 1]

\* run(), lines 92-109: the vector handed to send_action
TeleopAction(leader_angles) ==
    [i \in ServoIds |->
        MAPPING_DIRECTION[i] *
            (IF i \in RotationalJoints
             THEN deg_to_rad(leader_angles[i][1])
             ELSE gripper_ratio(leader_angles[GripperJoint][1],
                                LEADER_GRIPPER_OPEN_DEG,
                                LEADER_GRIPPER_CLOSE_DEG))]

TeleopInit ==
    /\ leader = [a \in Sides |-> "none"]
    /\ home_offsets = [a \in Sides |-> EmptyDict]
    /\ directions = [a \in Sides |-> EmptyDict]
    /\ calib_ret = [a \in Sides |-> NotCalled]
    /\ files \in InitFiles
    /\ pc = At("init", "-")
    /\ ports = << >>
    /\ found_ports = [name \in DOMAIN DEVICE_ID_CFG |-> None]
    /\ arms = [s \in Sides |-> "unset"]
    /\ follower = [s \in Sides |-> "none"]
    /\ setup_log = [s \in Sides |-> NoSetup]
    /\ tick = [s \in Sides |-> NoTick]
    /\ cleanup_log = [s \in Sides |-> NoCleanup]
    /\ interrupted = FALSE
    /\ RxIdle
    /\ LocIdle
    /\ CallIdle

\* __init__, lines 31-50: the same two try statements as setup_arm_pair,
\* with sys.exit(1) where setup_arm_pair returns None
TeleopSetup ==
    /\ pc = At("init", "-")
    /\ \E ls \in LeaderSteps, fs \in FollowerSteps :
          setup_arm_pair("left", ls, fs)
    /\ pc' = IF arms'["left"] = "pair" THEN At("wait_enter", "-")
             ELSE At("exited", "-")
    /\ UNCHANGED << ports, found_ports, tick, cleanup_log, interrupted >>
    /\ UNCHANGED << rxVars, locVars >>
    /\ UNCHANGED callVars

\* run(), lines 78-82: Enter, then calibrate_home()
TeleopCalibrate ==
    /\ pc = At("wait_enter", "-")
    /\ \E r \in Readings : calibrate_home("left", r)
    /\ pc' = At("loop", "-")
    /\ UNCHANGED << leader, ports, found_ports, arms, follower, setup_log,
                    tick, cleanup_log, interrupted >>
    /\ UNCHANGED << rxVars, locVars >>
    /\ UNCHANGED callVars

\* run(), lines 86-113: one pass of the loop body up to the print; line 90
\* goes back to the loop head with `continue`
TeleopTick ==
    /\ pc = At("loop", "-")
    /\ \E r \in Readings, send_raises \in BOOLEAN :
          LET leader_angles == get_angles("left", r)
          IN  IF HasNone(leader_angles)
              THEN /\ tick' = [tick EXCEPT !["left"] =
                          [raw |-> Some(r), sent |-> None]]
                   /\ pc' = At("loop", "-")
              ELSE IF send_raises
              THEN /\ tick' = [tick EXCEPT !["left"] =
                          [raw |-> Some(r), sent |-> None]]
                   /\ pc' = At("cleanup", "-")
              ELSE /\ tick' = [tick EXCEPT !["left"] =
                          [raw |-> Some(r),
                           sent |-> Some(TeleopAction(leader_angles))]]
                   /\ pc' = At("pace", "-")
    /\ UNCHANGED << armVars, ports, found_ports, arms, follower, setup_log,
                    cleanup_log, interrupted >>
    /\ UNCHANGED << rxVars, locVars >>
    /\ UNCHANGED callVars

\* run(), lines 115-118 and back to line 85
TeleopPace ==
    /\ pc = At("pace", "-")
    /\ tick' = [s \in Sides |-> NoTick]
    /\ pc' = At("loop", "-")
    /\ UNCHANGED << armVars, ports, found_ports, arms, follower, setup_log,
                    cleanup_log, interrupted >>
    /\ UNCHANGED << rxVars, locVars >>
    /\ UNCHANGED callVars

\* KeyboardInterrupt inside the try statement, lines 120-123
TeleopInterrupt ==
    /\ pc \in {At("loop", "-"), At("pace", "-")}
    /\ pc' = At("cleanup", "-")
    /\ interrupted' = TRUE
    /\ UNCHANGED << armVars, ports, found_ports, arms, follower, setup_log,
                    tick, cleanup_log >>
    /\ UNCHANGED << rxVars, locVars >>
    /\ UNCHANGED callVars

\* cleanup(), lines 125-127: two closes, no try statement
TeleopCleanup ==
    /\ pc = At("cleanup", "-")
    /\ \E raised \in {"none", "leader_close", "follower_close"} :
          /\ leader' = [leader EXCEPT !["left"] =
                 IF raised = "leader_close" THEN @ ELSE "closed"]
          /\ follower' = [follower EXCEPT !["left"] =
                 IF raised = "none" THEN "closed" ELSE @]
          /\ cleanup_log' = [cleanup_log EXCEPT !["left"] =
                 [ran |-> TRUE, raised |-> raised]]
          /\ pc' = IF raised = "none" THEN At("done", "-")
                   ELSE At("terminated", "-")
    /\ UNCHANGED << home_offsets, directions, files, calib_ret, ports,
                    found_ports, arms, setup_log, tick, interrupted >>
    /\ UNCHANGED << rxVars, locVars >>
    /\ UNCHANGED callVars

TeleopNext ==
    \/ TeleopSetup
    \/ TeleopCalibrate
    \/ TeleopTick
    \/ TeleopPace
    \/ TeleopInterrupt
    \/ TeleopCleanup

SpecTeleop == TeleopInit /\ [][TeleopNext]_vars

----------------------------------------------------------------------------
(* SpecArm: the two leader arms of the dual setup, used in any order *)

ArmInit ==
    /\ leader = [a \in Sides |-> "none"]
    /\ home_offsets = [a \in Sides |-> EmptyDict]
    /\ directions = [a \in Sides |-> EmptyDict]
    /\ calib_ret = [a \in Sides |-> NotCalled]
    /\ files \in ArmFiles
    /\ SysIdle
    /\ RxIdle
    /\ LocIdle
    /\ CallIdle

ArmConstruct(a) ==
    /\ leader[a] = "none"
    /\ Construct(a)
    /\ calib_ret' = [calib_ret EXCEPT ![a] = NotCalled]
    /\ UNCHANGED << sysVars, rxVars, locVars >>
    /\ UNCHANGED callVars

ArmCalibrate(a) ==
    /\ leader[a] = "open"
    /\ \E r \in Readings : calibrate_home(a, r)
    /\ UNCHANGED leader
    /\ UNCHANGED << sysVars, rxVars, locVars >>
    /\ UNCHANGED callVars

ArmSetDirection(a) ==
    /\ leader[a] = "open"
    /\ \E sid \in SetDirIds, d \in SetDirValues : set_direction(a, sid, d)
    /\ UNCHANGED << leader, calib_ret >>
    /\ UNCHANGED << sysVars, rxVars, locVars >>
    /\ UNCHANGED callVars

\* driver.close() and the end of the instance; a later run constructs anew
ArmClose(a) ==
    /\ leader[a] = "open"
    /\ leader' = [leader EXCEPT ![a] = "none"]
    /\ home_offsets' = [home_offsets EXCEPT ![a] = EmptyDict]
    /\ directions' = [directions EXCEPT ![a] = EmptyDict]
    /\ calib_ret' = [calib_ret EXCEPT ![a] = NotCalled]
    /\ UNCHANGED files
    /\ UNCHANGED << sysVars, rxVars, locVars >>
    /\ UNCHANGED callVars

ArmNext ==
    \E a \in Sides :
        \/ ArmConstruct(a)
        \/ ArmCalibrate(a)
        \/ ArmSetDirection(a)
        \/ ArmClose(a)

SpecArm == ArmInit /\ [][ArmNext]_vars

----------------------------------------------------------------------------
(* SpecLoc: the two locators on arbitrary enumerations *)

MaxDevices == 2

DevicePaths == << "/dev/ttyACM0", "/dev/ttyACM1", "/dev/ttyACM2", "/dev/ttyACM3" >>

StrAB == << "A", "B" >>
StrC == << "C" >>
StrXABY == << "x", "A", "B", "y" >>

\* what a device reports; None: the attribute is missing
SerialValues == {None, Some(EmptyStr), Some(StrAB), Some(StrC)}
LocationValues == {None, Some(EmptyStr), Some(StrAB), Some(StrC), Some(StrXABY)}
\* what a role is configured with
IdentValues == {EmptyStr, StrAB, StrC}

LocRoles == {"left", "right"}

LocEnums ==
    UNION { { [i \in 1 .. n |->
                 [device |-> DevicePaths[i],
                  serial_number |-> attrs[i][1],
                  location |-> attrs[i][2]]] :
              attrs \in [1 .. n -> SerialValues \X LocationValues] } :
            n \in 0 .. MaxDevices }

\* `identifier in location`
Contains(hay, needle) ==
    \E i \in 0 .. (Len(hay) - Len(needle)) :
        SubSeq(hay, i + 1, i + Len(needle)) = needle

\* read_daul_leader.find_port, lines 17-21: the tests made on one device
MatchesPartial(p, identifier) ==
    \/ p.serial_number = Some(identifier)
    \/ /\ p.location # None
       /\ p.location[1] # EmptyStr
       /\ Contains(p.location[1], identifier)

RECURSIVE find_port(_, _)
\* read_daul_leader.find_port, lines 13-22
find_port(identifier, enum) ==
    IF enum = << >> THEN None
    ELSE IF MatchesPartial(Head(enum), identifier) THEN Some(Head(enum).device)
    ELSE find_port(identifier, Tail(enum))

ArmIdle ==
    /\ leader = [a \in Sides |-> "none"]
    /\ home_offsets = [a \in Sides |-> EmptyDict]
    /\ directions = [a \in Sides |-> EmptyDict]
    /\ calib_ret = [a \in Sides |-> NotCalled]
    /\ files = [p \in Paths |-> NoFile]

LocInit ==
    /\ loc_pc = "scan"
    /\ loc_enum \in LocEnums
    /\ loc_targets \in [LocRoles -> IdentValues]
    /\ loc_found = << >>
    /\ ArmIdle
    /\ SysIdle
    /\ RxIdle
    /\ CallIdle

\* both locators run on the same enumeration and targets
LocResolve ==
    /\ loc_pc = "scan"
    /\ loc_found' =
          [dual |-> find_ports(loc_targets, loc_enum),
           all_success |-> all_success(find_ports(loc_targets, loc_enum)),
           single |-> [r \in DOMAIN loc_targets |->
                          find_port(loc_targets[r], loc_enum)]]
    /\ loc_pc' = "done"
    /\ UNCHANGED << loc_enum, loc_targets, armVars, sysVars, rxVars >>
    /\ UNCHANGED callVars

LocNext == LocResolve

SpecLoc == LocInit /\ [][LocNext]_vars

----------------------------------------------------------------------------
(* SpecRx: STSServoDriver, one get_position exchange byte by byte *)

MaxStray == 2
\* self.timeout in clock ticks
TimeoutTicks == 2

SYNC == 255
INST_READ == 2
SMS_STS_PRESENT_POSITION == 56

Min(a, b) == IF a < b THEN a ELSE b

RECURSIVE Sum(_)
Sum(packet) == IF packet = << >> THEN 0 ELSE Head(packet) + Sum(Tail(packet))

\* calc_checksum without the complement
SumLowByte(packet) == Sum(packet) % 256

\* lines 55-60: (~total) & 0xFF
calc_checksum(packet) == 255 - (Sum(packet) % 256)

\* lines 62-74: the bytes _write_packet sends
RequestFrame(servo_id, instruction, params) ==
    LET payload == << servo_id, Len(params) + 2, instruction >> \o params
    IN  << SYNC, SYNC >> \o payload \o << calc_checksum(payload) >>

\* lines 84-86: the bytes a servo answers with
ResponseFrame(f) ==
    LET payload == << f.id, Len(f.params) + 2, f.error >> \o f.params
    IN  << SYNC, SYNC >> \o payload \o << calc_checksum(payload) >>

\* bytes on the bus that belong to no frame
StrayBytes == {SYNC, 7}
Strays == UNION { [1 .. n -> StrayBytes] : n \in 0 .. MaxStray }

\* the answers a servo may give
FrameSpecs ==
    [id : {1, 2}, error : {0, 32},
     params : {<< >>, << 0, 8 >>, << 255, 15 >>, << 0, 16 >>,
               << 232, 3, 0, 0, 16, 0 >>}]

\* what follows the request on the bus: stray bytes, then the first `sent`
\* bytes of a response frame, then what `noise` says
RxInputs ==
    UNION { { [servo_id |-> sid, stray |-> st, frame |-> f, sent |-> n,
                noise |-> "silent"] :
                n \in 0 .. Len(ResponseFrame(f)) } :
            << sid, st, f >> \in {1, 2} \X Strays \X FrameSpecs }

\* headers followed by the asked-for id and a length byte that leaves no room
\* for the error byte and the checksum
BadLengthFrames ==
    { << SYNC, SYNC, sid, 0 >> : sid \in {1, 2} } \cup
    { << SYNC, SYNC, sid, 1, 0 >> : sid \in {1, 2} }

\* the bus carries one of those and nothing else
MalformedInputs ==
    { [servo_id |-> sid, stray |-> b, frame |-> f, sent |-> 0,
       noise |-> "silent"] :
        sid \in {1, 2}, b \in BadLengthFrames,
        f \in {[id |-> 1, error |-> 0, params |-> << >>]} }

WireOf(in) == in.stray \o SubSeq(ResponseFrame(in.frame), 1, in.sent)

\* line 125: remaining < 0
BadLength(resp_len) == resp_len - 2 < 0

\* ParseAfterSync with a non-zero error byte failing the call
ParseRejectingError(w, servo_id) ==
    IF Len(w) < 2 THEN [resp |-> None, by |-> "truncated"]
    ELSE LET resp_id == w[1]
             resp_len == w[2]
             body == SubSeq(w, 3, 2 + resp_len)
         IN  IF BadLength(resp_len) THEN [resp |-> None, by |-> "badlen"]
             ELSE IF Len(w) - 2 < resp_len THEN [resp |-> None, by |-> "truncated"]
             ELSE IF body = << >> THEN [resp |-> None, by |-> "raised"]
             ELSE IF resp_id # servo_id THEN [resp |-> None, by |-> "idmismatch"]
             ELSE IF body[1] # 0 THEN [resp |-> None, by |-> "error"]
             ELSE [resp |-> Some(SubSeq(body, 2, resp_len - 1)), by |-> "params"]

\* lines 113-146: after the two sync bytes, reading from w
ParseAfterSync(w, servo_id) ==
    IF Len(w) < 2 THEN [resp |-> None, by |-> "truncated"]
    ELSE LET resp_id == w[1]
             resp_len == w[2]
             body == SubSeq(w, 3, 2 + resp_len)
         IN  IF BadLength(resp_len) THEN [resp |-> None, by |-> "badlen"]
             ELSE IF Len(w) - 2 < resp_len THEN [resp |-> None, by |-> "truncated"]
             ELSE IF body = << >> THEN [resp |-> None, by |-> "raised"]
             ELSE IF resp_id # servo_id THEN [resp |-> None, by |-> "idmismatch"]
             ELSE [resp |-> Some(SubSeq(body, 2, resp_len - 1)), by |-> "params"]

\* PositionOf with 0 for the failed read
PositionOrZero(resp) ==
    IF resp # None /\ Len(resp[1]) = 2
    THEN resp[1][1] + resp[1][2] * 256
    ELSE 0

\* lines 201-206: `if resp and len(resp) == 2`
PositionOf(resp) ==
    IF resp # None /\ Len(resp[1]) = 2
    THEN resp[1][1] + resp[1][2] * 256
    ELSE UNAVAILABLE

\* TimedOut with the test left out
NeverTimedOut(e) == FALSE

\* line 97: time.time() - start_time > self.timeout
TimedOut(e) == e > TimeoutTicks

RxInit ==
    /\ rx_pc = "call"
    /\ ser \in {"open", "closed", "none"}
    /\ rx_in \in RxInputs \cup MalformedInputs
    /\ ser # "open" => (rx_in.stray = << >> /\ rx_in.sent = 0)
    /\ wire = WireOf(rx_in)
    /\ elapsed = 0
    /\ header_count = 0
    /\ tx = None
    /\ rx_resp = NoResp
    /\ position = UNAVAILABLE
    /\ angle = None
    /\ ArmIdle
    /\ SysIdle
    /\ LocIdle
    /\ CallIdle

\* get_position lines 197-198, _write_packet lines 62-81, and
\* _read_response lines 88-94
RxWritePacket ==
    /\ rx_pc = "call"
    /\ IF ser = "open"
       THEN /\ tx' = Some(RequestFrame(rx_in.servo_id, INST_READ,
                                       << SMS_STS_PRESENT_POSITION, 2 >>))
            /\ rx_pc' = "scan"
            /\ UNCHANGED rx_resp
       ELSE /\ rx_resp' = [resp |-> None, by |-> "port"]
            /\ rx_pc' = "return"
            /\ UNCHANGED tx
    /\ elapsed' = 0
    /\ header_count' = 0
    /\ UNCHANGED << ser, rx_in, wire, position, angle, armVars, sysVars, locVars >>
    /\ UNCHANGED callVars

\* lines 97-98
RxScanTimeout ==
    /\ rx_pc = "scan"
    /\ TimedOut(elapsed)
    /\ rx_resp' = [resp |-> None, by |-> "timeout"]
    /\ rx_pc' = "return"
    /\ UNCHANGED << ser, rx_in, wire, elapsed, header_count, tx, position,
                    angle, armVars, sysVars, locVars >>
    /\ UNCHANGED callVars

\* lines 100-111: read(1) hands over the next byte
RxScanByte ==
    /\ rx_pc = "scan"
    /\ ~TimedOut(elapsed)
    /\ wire # << >>
    /\ \E dt \in {0, 1} : elapsed' = Min(elapsed + dt, TimeoutTicks + 1)
    /\ header_count' = IF Head(wire) = SYNC THEN header_count + 1 ELSE 0
    /\ wire' = Tail(wire)
    /\ rx_pc' = IF header_count' = 2 THEN "parse" ELSE "scan"
    /\ UNCHANGED << ser, rx_in, tx, rx_resp, position, angle, armVars, sysVars,
                    locVars >>
    /\ UNCHANGED callVars

\* lines 100-102: nothing arrives, read(1) gives up after the port's timeout
RxScanIdle ==
    /\ rx_pc = "scan"
    /\ ~TimedOut(elapsed)
    /\ wire = << >>
    /\ \E dt \in {0, 1} :
          elapsed' = Min(elapsed + TimeoutTicks + dt, TimeoutTicks + 1)
    /\ UNCHANGED << rx_pc, ser, rx_in, wire, header_count, tx, rx_resp,
                    position, angle, armVars, sysVars, locVars >>
    /\ UNCHANGED callVars

\* lines 113-146
RxParse ==
    /\ rx_pc = "parse"
    /\ rx_resp' = ParseAfterSync(wire, rx_in.servo_id)
    /\ rx_pc' = IF rx_resp'.by = "raised" THEN "raised" ELSE "return"
    /\ UNCHANGED << ser, rx_in, wire, elapsed, header_count, tx, position,
                    angle, armVars, sysVars, locVars >>
    /\ UNCHANGED callVars

\* get_position lines 200-206, then get_angles lines 86-115 for this servo
RxReturn ==
    /\ rx_pc = "return"
    /\ position' = PositionOf(rx_resp.resp)
    /\ angle' = AngleOf(position', DEFAULT_OFFSET, DEFAULT_DIRECTION)
    /\ rx_pc' = "done"
    /\ UNCHANGED << ser, rx_in, wire, elapsed, header_count, tx, rx_resp,
                    armVars, sysVars, locVars >>
    /\ UNCHANGED callVars

RxNext ==
    \/ RxWritePacket
    \/ RxScanTimeout
    \/ RxScanByte
    \/ RxScanIdle
    \/ RxParse
    \/ RxReturn

SpecRx == RxInit /\ [][RxNext]_vars

----------------------------------------------------------------------------
(* SpecRxLive: _read_response on a bus that never falls silent *)

\* what the bus carries once the bytes of rx_in are read: nothing, non-sync
\* bytes without end, or single sync bytes separated by other bytes
NoiseKinds == {"silent", "nonsync", "isolated"}

\* the byte an endless stream hands to the next read(1)
NoiseByte(kind, count) ==
    IF kind = "isolated" /\ count = 0 THEN SYNC ELSE 7

RxLiveInputs ==
    { [in EXCEPT !.noise = k] :
        in \in {i \in RxInputs : i.frame.params = << 0, 8 >> /\ i.frame.error = 0},
        k \in NoiseKinds }

RxLiveInit ==
    /\ rx_pc = "call"
    /\ ser = "open"
    /\ rx_in \in RxLiveInputs
    /\ wire = WireOf(rx_in)
    /\ elapsed = 0
    /\ header_count = 0
    /\ tx = None
    /\ rx_resp = NoResp
    /\ position = UNAVAILABLE
    /\ angle = None
    /\ ArmIdle
    /\ SysIdle
    /\ LocIdle
    /\ CallIdle

\* lines 100-111: read(1) hands over the next byte of the endless stream
RxScanNoise ==
    /\ rx_pc = "scan"
    /\ ~TimedOut(elapsed)
    /\ wire = << >>
    /\ rx_in.noise # "silent"
    /\ \E dt \in {0, 1} : elapsed' = Min(elapsed + dt, TimeoutTicks + 1)
    /\ header_count' =
          IF NoiseByte(rx_in.noise, header_count) = SYNC THEN header_count + 1 ELSE 0
    /\ rx_pc' = IF header_count' = 2 THEN "parse" ELSE "scan"
    /\ UNCHANGED << ser, rx_in, wire, tx, rx_resp, position, angle, armVars,
                    sysVars, locVars >>
    /\ UNCHANGED callVars

RxLiveNext ==
    \/ RxNext
    \/ RxScanNoise

\* a step of the scan during which the clock read at line 97 moved on
ClockAdvances == RxLiveNext /\ elapsed' > elapsed

\* the interpreter keeps running the call, and time.time() does not stand
\* still over an unbounded number of reads (each read(1) lasts a byte time
\* or the port's read timeout)
SpecRxLive ==
    /\ RxLiveInit
    /\ [][RxLiveNext]_vars
    /\ WF_vars(RxLiveNext)
    /\ WF_vars(ClockAdvances)

----------------------------------------------------------------------------
(* SpecCall: single calls of the program's functions on chosen arguments *)

MaxParams == 2

INST_PING == 1
INST_WRITE == 3
INST_SYNC_WRITE == 131

\* byte values handed over as parameters
ParamBytes == {0, 2, SMS_STS_PRESENT_POSITION, 255}
ParamLists == UNION { [1 .. n -> ParamBytes] : n \in 0 .. MaxParams }

\* _write_packet(servo_id, instruction, params) on a port in state ser
WriteCalls ==
    [op : {"write_packet"}, servo_id : {0, 1, 7, 254},
     instruction : {INST_PING, INST_READ, INST_WRITE, INST_SYNC_WRITE},
     params : ParamLists, ser : {"open", "closed", "none"}]

\* calls made on the serial port object, in order
FlushInput == [ev |-> "flushInput", data |-> << >>]
Write(frame) == [ev |-> "write", data |-> frame]

\* write_packet without line 78
write_unflushed(servo_id, instruction, params, port) ==
    IF port = "open"
    THEN [io |-> << Write(RequestFrame(servo_id, instruction, params)) >>,
          wrote |-> Some(RequestFrame(servo_id, instruction, params)),
          ret |-> TRUE]
    ELSE [io |-> << >>, wrote |-> None, ret |-> FALSE]

\* lines 62-81: what is done on the port, what goes out, the value returned
write_packet(servo_id, instruction, params, port) ==
    IF port = "open"
    THEN [io |-> << FlushInput,
                    Write(RequestFrame(servo_id, instruction, params)) >>,
          wrote |-> Some(RequestFrame(servo_id, instruction, params)),
          ret |-> TRUE]
    ELSE [io |-> << >>, wrote |-> None, ret |-> FALSE]

CallWritePacket ==
    /\ call.op = "write_packet"
    /\ result = None
    /\ result' = Some(write_packet(call.servo_id, call.instruction, call.params,
                                   call.ser))
    /\ UNCHANGED << call, armVars, sysVars, rxVars, locVars >>

SMS_STS_ID == 5
SMS_STS_TORQUE_ENABLE == 40
SMS_STS_GOAL_POSITION == 42
SMS_STS_LOCK == 55

\* lines 156-159
enable_torque(servo_id, enable, port) ==
    LET val == IF enable THEN 1 ELSE 0
        w == write_packet(servo_id, INST_WRITE,
                          << SMS_STS_TORQUE_ENABLE, val >>, port)
    IN  [io |-> w.io]

\* lines 161-188
set_position(servo_id, goal, speed, port) ==
    LET pos == IF goal < 0 THEN 0
               ELSE IF goal > 4095 THEN 4095 ELSE goal
        params == << SMS_STS_GOAL_POSITION, pos % 256, (pos \div 256) % 256,
                     speed % 256, (speed \div 256) % 256 >>
        w == write_packet(servo_id, INST_WRITE, params, port)
    IN  [io |-> w.io]

\* change_id with steps 2 and 3 exchanged
change_id_reordered(old_id, new_id, port) ==
    LET a1 == << old_id, INST_WRITE, << SMS_STS_LOCK, 0 >> >>
        a2 == << new_id, INST_WRITE, << SMS_STS_LOCK, 1 >> >>
        a3 == << old_id, INST_WRITE, << SMS_STS_ID, new_id >> >>
    IN  [calls |-> << a1, a2, a3 >>,
         io |-> write_packet(a1[1], a1[2], a1[3], port).io
                  \o write_packet(a2[1], a2[2], a2[3], port).io
                  \o write_packet(a3[1], a3[2], a3[3], port).io,
         reads |-> 0,
         printed |-> << "Changed ID", old_id, new_id >>]

\* lines 230-240: the three _write_packet calls, what they do on the port,
\* how many responses are read, and the message printed at the end
change_id(old_id, new_id, port) ==
    LET a1 == << old_id, INST_WRITE, << SMS_STS_LOCK, 0 >> >>
        a2 == << old_id, INST_WRITE, << SMS_STS_ID, new_id >> >>
        a3 == << new_id, INST_WRITE, << SMS_STS_LOCK, 1 >> >>
    IN  [calls |-> << a1, a2, a3 >>,
         io |-> write_packet(a1[1], a1[2], a1[3], port).io
                  \o write_packet(a2[1], a2[2], a2[3], port).io
                  \o write_packet(a3[1], a3[2], a3[3], port).io,
         reads |-> 0,
         printed |-> << "Changed ID", old_id, new_id >>]

PortStates == {"open", "closed", "none"}

\* enable_torque, set_position and change_id on a port in state ser;
\* lost: which of the frames of change_id the bus drops (0: none)
DriverCalls ==
    [op : {"enable_torque"}, servo_id : {1, 7}, enable : BOOLEAN,
     ser : PortStates]
    \cup [op : {"set_position"}, servo_id : {1, 7},
          position : {-5, 0, 2048, 4095, 5000}, speed : {0, 300},
          ser : PortStates]
    \cup [op : {"change_id"}, old_id : {1, 7}, new_id : {1, 2, 253},
          lost : 0 .. 3, ser : PortStates]

CallDriver ==
    /\ call.op \in {"enable_torque", "set_position", "change_id"}
    /\ result = None
    /\ result' = Some(
          CASE call.op = "enable_torque" ->
                 enable_torque(call.servo_id, call.enable, call.ser)
            [] call.op = "set_position" ->
                 set_position(call.servo_id, call.position, call.speed,
                              call.ser)
            [] call.op = "change_id" ->
                 change_id(call.old_id, call.new_id, call.ser))
    /\ UNCHANGED << call, armVars, sysVars, rxVars, locVars >>

\* values a byte of a response is changed to on the bus
FlipValues == {0, 1, 255}

\* the response w with its k-th byte changed to v
Flipped(w, k, v) == [i \in 1 .. Len(w) |-> IF i = k THEN v ELSE w[i]]

\* _read_response(servo_id, ...) when the bus delivers a whole response
\* frame: untouched (flip = 0), or with the byte at index flip, one of id,
\* length, error and params, changed to another value
DecodeCalls ==
    UNION { { [op |-> "read_response", servo_id |-> sid, frame |-> f,
               flip |-> k, to |-> v] :
                << k, v >> \in
                    { kv \in ({0} \cup 3 .. (Len(ResponseFrame(f)) - 1))
                                \X FlipValues :
                        IF kv[1] = 0 THEN kv[2] = 0
                        ELSE ResponseFrame(f)[kv[1]] # kv[2] } } :
            << sid, f >> \in {1, 2} \X FrameSpecs }

DecodeWire(c) ==
    IF c.flip = 0 THEN ResponseFrame(c.frame)
    ELSE Flipped(ResponseFrame(c.frame), c.flip, c.to)

\* lines 93-146 on bytes that begin with the two sync bytes: the scan ends
\* right behind them
read_response(w, servo_id) == ParseAfterSync(SubSeq(w, 3, Len(w)), servo_id)

CallReadResponse ==
    /\ call.op = "read_response"
    /\ result = None
    /\ result' = Some(read_response(DecodeWire(call), call.servo_id))
    /\ UNCHANGED << call, armVars, sysVars, rxVars, locVars >>

\* get_position(servo_id) after an exchange with servo late_id that timed
\* out: that servo's answer (late_pos) reaches the port before the new
\* request is written or after it, ahead of the answer to the new request
LateCalls ==
    [op : {"get_position_late"}, servo_id : {1, 2}, late_id : {1, 2},
     late_pos : {100, 2048}, now_pos : {100, 2048},
     arrives : {"before_write", "after_write"}]

PositionFrame(id, pos) ==
    ResponseFrame([id |-> id, error |-> 0,
                   params |-> << pos % 256, pos \div 256 >>])

\* lines 197-206 on a port whose input buffer holds `buffered` when the
\* request is written and receives `incoming` afterwards
get_position_on(servo_id, buffered, incoming) ==
    LET w == write_packet(servo_id, INST_READ,
                          << SMS_STS_PRESENT_POSITION, 2 >>, "open")
        kept == IF \E i \in 1 .. Len(w.io) : w.io[i] = FlushInput
                THEN << >> ELSE buffered
    IN  PositionOf(read_response(kept \o incoming, servo_id).resp)

CallGetPositionLate ==
    /\ call.op = "get_position_late"
    /\ result = None
    /\ LET late == PositionFrame(call.late_id, call.late_pos)
           now == PositionFrame(call.servo_id, call.now_pos)
       IN  result' = Some(
             IF call.arrives = "before_write"
             THEN get_position_on(call.servo_id, late, now)
             ELSE get_position_on(call.servo_id, << >>, late \o now))
    /\ UNCHANGED << call, armVars, sysVars, rxVars, locVars >>

\* the encoder's range, and the offsets tried against every raw value
RawRange == 0 .. (FULL_TURN - 1)
OffsetSamples == {0, 1, HALF_TURN - 1, HALF_TURN, HALF_TURN + 1, FULL_TURN - 1}

\* get_angles' computation for one servo that answered
AngleCalls ==
    [op : {"angle"}, raw : RawRange, offset : OffsetSamples, direction : {1, -1}]

CallAngle ==
    /\ call.op = "angle"
    /\ result = None
    /\ result' = Some([delta |-> WrapDelta(call.raw, call.offset),
                       angle |-> AngleOf(call.raw, call.offset, call.direction)])
    /\ UNCHANGED << call, armVars, sysVars, rxVars, locVars >>

\* calibration states an arm may hold when it saves
OffsetDicts ==
    {AllAt(100), AllAt(4000), AllAt(DEFAULT_OFFSET), [i \in ServoIds |-> 300 * i]}
DirectionDicts ==
    {AllAt(1), AllAt(-1), [i \in ServoIds |-> IF i = 1 THEN -1 ELSE 1]}

\* an arm holding home_offsets and directions saves; then a LeaderArm is
\* constructed with the same config_file and reads raw
SaveLoadCalls ==
    [op : {"save_load"}, side : Sides, home_offsets : OffsetDicts,
     directions : DirectionDicts, raw : Readings]

\* save_config, lines 150-157
CallSave ==
    /\ call.op = "save_load"
    /\ result = None
    /\ files' = save_config(call.side, call.home_offsets, call.directions)
    /\ result' = Some([phase |-> "saved"])
    /\ UNCHANGED << call, leader, home_offsets, directions, calib_ret, sysVars,
                    rxVars, locVars >>

\* LeaderArm.__init__, lines 25-28, then get_angles
CallConstruct ==
    /\ call.op = "save_load"
    /\ result = Some([phase |-> "saved"])
    /\ LET loaded == InitialCalibration(call.side)
       IN  result' = Some([phase |-> "loaded",
                           home_offsets |-> loaded[1],
                           directions |-> loaded[2],
                           angles |-> AnglesWith(loaded[1], loaded[2], call.raw)])
    /\ UNCHANGED << call, armVars, sysVars, rxVars, locVars >>

\* a LeaderArm is constructed on the files it finds, then
\* set_direction(servo_id, direction) is called on it
SetDirectionCalls ==
    [op : {"set_direction"}, side : Sides, servo_id : SetDirIds,
     direction : SetDirValues]

\* LeaderArm.__init__
CallArmOpen ==
    /\ call.op = "set_direction"
    /\ result = None
    /\ Construct(call.side)
    /\ result' = Some("constructed")
    /\ UNCHANGED << call, calib_ret, sysVars, rxVars, locVars >>

\* lines 142-148, and whether the call got as far as save_config
CallSetDirection ==
    /\ call.op = "set_direction"
    /\ result = Some("constructed")
    /\ set_direction(call.side, call.servo_id, call.direction)
    /\ result' = Some(IF ValidDirection(call.direction) THEN "saved"
                      ELSE "rejected")
    /\ UNCHANGED << call, leader, calib_ret, sysVars, rxVars, locVars >>

\* gripper angles and range ends, in hundredths of a degree
GripperAngles == {-18000, -1, 0, 1, 2500, 4999, 5000, 5001, 18000}
GripperEnds == {-3000, 0, 5, 9, 10, 5000}

\* map_gripper(raw_deg) for a gripper configured with open and close
GripperCalls ==
    [op : {"map_gripper"}, raw_deg : GripperAngles, open : GripperEnds,
     close : GripperEnds]

CallMapGripper ==
    /\ call.op = "map_gripper"
    /\ result = None
    /\ result' = Some(gripper_ratio(call.raw_deg, call.open, call.close))
    /\ UNCHANGED << call, armVars, sysVars, rxVars, locVars >>

Calls ==
    WriteCalls \cup DecodeCalls \cup AngleCalls \cup SaveLoadCalls
        \cup SetDirectionCalls \cup GripperCalls \cup DriverCalls
        \cup LateCalls

CallInit ==
    /\ call \in Calls
    /\ result = None
    /\ leader = [a \in Sides |-> "none"]
    /\ home_offsets = [a \in Sides |-> EmptyDict]
    /\ directions = [a \in Sides |-> EmptyDict]
    /\ calib_ret = [a \in Sides |-> NotCalled]
    /\ files \in IF call.op = "set_direction" THEN ArmFiles
                  ELSE {[p \in Paths |-> NoFile]}
    /\ SysIdle
    /\ RxIdle
    /\ LocIdle

CallNext ==
    \/ CallWritePacket
    \/ CallReadResponse
    \/ CallAngle
    \/ CallSave
    \/ CallConstruct
    \/ CallArmOpen
    \/ CallSetDirection
    \/ CallMapGripper
    \/ CallDriver
    \/ CallGetPositionLate

SpecCall == CallInit /\ [][CallNext]_vars

----------------------------------------------------------------------------
(* C1 *)

\* C1: each arm loads from and saves to only its own caller-supplied path:
\* whenever an arm exists, its own file (when there is one) holds exactly the
\* arm's calibration state, and with no file of its own the arm is at the
\* defaults; nothing another arm persisted is loaded into it, and its own
\* persisted calibration is never another arm's.
C1_OwnStoreOnly ==
    \A a \in Sides :
        leader[a] = "open" =>
            LET own == files[config_file[a]]
            IN  IF own.exists
                THEN own = ConfigJson(home_offsets[a], directions[a])
                ELSE /\ home_offsets[a] = [i \in ServoIds |-> DEFAULT_OFFSET]
                     /\ directions[a] = [i \in ServoIds |-> DEFAULT_DIRECTION]

----------------------------------------------------------------------------
(* C2 *)

\* C2: a calibrate_home call in which some servo's position is unavailable
\* leaves home_offsets as it was, persists nothing, and hands its caller a
\* result that differs from the one a successful calibration hands back.
C2_AbortReportsFailure ==
    [][\A a \in Sides :
          (calib_ret'[a] # calib_ret[a] /\ calib_ret'[a].outcome = "aborted") =>
              /\ home_offsets'[a] = home_offsets[a]
              /\ files' = files
              /\ calib_ret'[a].ret # CalibrateReturn(FALSE)]_vars

----------------------------------------------------------------------------
(* C3 *)

ActiveSides == {s \in Sides : arms[s] = "pair"}

\* C3: the loop is entered, and a command is dispatched, only when
\* calibrate_home has succeeded for every active pairing.
C3_RunningOnlyAfterCalibration ==
    (pc.at \in {"loop", "pace"} \/ \E s \in Sides : tick[s].sent # None) =>
        \A t \in ActiveSides : calib_ret[t].outcome = "saved"

----------------------------------------------------------------------------
(* C4 *)

\* C4: within a tick, a pairing for which some leader position was
\* unavailable gets no command; a command that is dispatched is the vector
\* computed from the seven angles read in this very tick; and by the pacing
\* step every active pairing has been read, whatever happened to the other.
C4_NoPartialOrStaleCommand ==
    \A s \in Sides :
        /\ tick[s].sent # None =>
              /\ tick[s].raw # None
              /\ ~AnyUnavailable(tick[s].raw[1])
              /\ tick[s].sent[1] = ActionVector(s, get_angles(s, tick[s].raw[1]))
        /\ (tick[s].raw # None /\ HasNone(get_angles(s, tick[s].raw[1]))) =>
              tick[s].sent = None
        /\ (pc.at = "pace" /\ s \in ActiveSides) => tick[s].raw # None

\* the left pairing was skipped for an unavailable joint, the right one
\* was commanded in the same tick
C4_Witness ==
    /\ pc.at = "pace"
    /\ ActiveSides = Sides
    /\ tick["left"].raw # None
    /\ AnyUnavailable(tick["left"].raw[1])
    /\ tick["left"].sent = None
    /\ tick["right"].sent # None

----------------------------------------------------------------------------
(* C7 *)

\* C7: a pairing is set up at most once; it is active exactly when both of
\* its devices resolved and both opened, whatever happened to the other
\* pairing; a discarded pairing is never calibrated, read, commanded or
\* cleaned up; and the process exits at startup exactly when no pairing is
\* active.
C7_FailureDiscardsOnlyThatPairing ==
    /\ \A s \in Sides :
          /\ setup_log[s].calls <= 1
          /\ arms[s] # "unset" =>
                (arms[s] = "pair" <=>
                    /\ BothResolved(s)
                    /\ setup_log[s].leader = "ok"
                    /\ setup_log[s].follower = "ok")
          /\ arms[s] # "pair" =>
                /\ calib_ret[s] = NotCalled
                /\ tick[s] = NoTick
                /\ ~cleanup_log[s].ran
    /\ pc.at \notin {"find_ports", "setup"} =>
          (pc.at = "exited" <=> ActiveSides = {})

\* the left leader's port did not open, and the right pairing is being
\* commanded
C7_Witness ==
    /\ pc.at \in {"loop", "pace"}
    /\ setup_log["left"].leader = "open_fails"
    /\ arms["left"] = "None"
    /\ arms["right"] = "pair"
    /\ tick["right"].sent # None

----------------------------------------------------------------------------
(* C8 *)

\* C8: once cleanup has begun and the program has ended, cleanup ran for
\* every active pairing, whatever the other pairing's closes raised, and a
\* pairing whose closes raised nothing has its leader transport and its
\* follower closed.
C8_CleanupEveryPairing ==
    (pc.at \in {"done", "terminated"} /\ \E s \in Sides : cleanup_log[s].ran) =>
        \A s \in ActiveSides :
            /\ cleanup_log[s].ran
            /\ cleanup_log[s].raised = "none" =>
                  (leader[s] = "closed" /\ follower[s] = "closed")

\* closing the left leader raised, and the right pairing was closed all the
\* same
C8_Witness ==
    /\ pc.at = "done"
    /\ ActiveSides = Sides
    /\ cleanup_log["left"].raised = "leader_close"
    /\ cleanup_log["right"] = [ran |-> TRUE, raised |-> "none"]
    /\ leader["right"] = "closed"
    /\ follower["right"] = "closed"

----------------------------------------------------------------------------
(* C9 *)

\* C9: when run() has been interrupted and the program has ended, cleanup
\* ran for every active pairing.
C9_InterruptLeadsToCleanup ==
    (interrupted /\ pc.at \in {"done", "terminated"}) =>
        \A s \in ActiveSides : cleanup_log[s].ran

----------------------------------------------------------------------------
(* C6 *)

\* the rule of the claim: the first device whose serial number equals the
\* identifier; only when there is none, the first device whose location
\* contains the identifier
ReferenceTwoPass(identifier) ==
    LET bySerial == {i \in 1 .. Len(loc_enum) :
                        loc_enum[i].serial_number = Some(identifier)}
        byLocation == {i \in 1 .. Len(loc_enum) :
                          /\ loc_enum[i].location # None
                          /\ Contains(loc_enum[i].location[1], identifier)}
        First(S) == CHOOSE i \in S : \A j \in S : i <= j
    IN  IF bySerial # {} THEN Some(loc_enum[First(bySerial)].device)
        ELSE IF byLocation # {} THEN Some(loc_enum[First(byLocation)].device)
        ELSE None

\* C6 as claimed: both locators resolve every role that has an identifier
\* (a non-empty string) by the two-pass rule, so a device matching by location
\* never wins over a later device matching by serial number.
C6_SerialPriorityOverall ==
    loc_pc = "done" =>
        \A r \in LocRoles :
            loc_targets[r] # EmptyStr =>
                /\ loc_found.dual[r] = ReferenceTwoPass(loc_targets[r])
                /\ loc_found.single[r] = ReferenceTwoPass(loc_targets[r])

\* the device matches the identifier for find_ports: serial number or
\* location equal to it, a missing attribute counting as the empty string
DualMatch(p, identifier) ==
    \/ (IF p.serial_number = None THEN EmptyStr ELSE p.serial_number[1]) = identifier
    \/ (IF p.location = None THEN EmptyStr ELSE p.location[1]) = identifier

\* the device matches the identifier for find_port: serial number equal to
\* it, or a non-empty location containing it
SingleMatch(p, identifier) ==
    \/ (p.serial_number # None /\ p.serial_number[1] = identifier)
    \/ (p.location # None /\ p.location[1] # EmptyStr
            /\ Contains(p.location[1], identifier))

\* found is the first device of the enumeration for which Match holds, or
\* None when there is none
FirstMatch(found, Match(_, _), identifier) ==
    IF \A i \in 1 .. Len(loc_enum) : ~Match(loc_enum[i], identifier)
    THEN found = None
    ELSE /\ found # None
         /\ \E i \in 1 .. Len(loc_enum) :
               /\ loc_enum[i].device = found[1]
               /\ Match(loc_enum[i], identifier)
               /\ \A j \in 1 .. (i - 1) : ~Match(loc_enum[j], identifier)

\* C6 as amended: each locator resolves a role to the first enumerated
\* device that matches the identifier by serial number or by location, in a
\* single pass over the enumeration.
C6_FirstMatchSinglePass ==
    loc_pc = "done" =>
        \A r \in LocRoles :
            /\ FirstMatch(loc_found.dual[r], DualMatch, loc_targets[r])
            /\ FirstMatch(loc_found.single[r], SingleMatch, loc_targets[r])

\* a device matching by location is enumerated before one matching by
\* serial number, and both locators resolved the role to the former
C6_Witness ==
    /\ loc_pc = "done"
    /\ Len(loc_enum) = 2
    /\ loc_targets["left"] = StrAB
    /\ loc_enum[1].serial_number = Some(StrC)
    /\ loc_enum[1].location = Some(StrAB)
    /\ loc_enum[2].serial_number = Some(StrAB)
    /\ loc_found.dual["left"] = Some(DevicePaths[1])
    /\ loc_found.single["left"] = Some(DevicePaths[1])

----------------------------------------------------------------------------
(* C5 *)

PositionFailures == {"port", "timeout", "truncated", "badlen", "idmismatch"}

\* C5: get_position never raises; when the read failed (closed or unopened
\* port, scan timeout, truncated frame, bad length, id mismatch) it returns
\* the sentinel; a read that succeeded returns the two bytes' value, which is
\* never the sentinel; and get_angles gives None for the sentinel, and only
\* for it.
C5_FailureIsSentinelNeverZero ==
    /\ rx_pc # "raised"
    /\ rx_pc = "done" =>
          /\ rx_resp.by \in PositionFailures =>
                (position = UNAVAILABLE /\ angle = None)
          /\ (rx_resp.resp # None /\ Len(rx_resp.resp[1]) = 2) =>
                /\ position = rx_resp.resp[1][1] + 256 * rx_resp.resp[1][2]
                /\ position >= 0
                /\ position # UNAVAILABLE
          /\ angle = None <=> position = UNAVAILABLE

\* the servo that answered is not the one that was asked
C5_Witness ==
    /\ rx_pc = "done"
    /\ rx_resp.by = "idmismatch"
    /\ position = UNAVAILABLE
    /\ angle = None

----------------------------------------------------------------------------
(* C10 *)

\* C10: whatever stray bytes come first, when the whole well-formed frame of
\* the servo that was asked follows within the timeout, _read_response
\* returns that frame's params.
C10_RecoversFromAnyStray ==
    ( /\ rx_pc = "done"
      /\ ser = "open"
      /\ rx_in.sent = Len(ResponseFrame(rx_in.frame))
      /\ rx_in.frame.id = rx_in.servo_id
      /\ rx_resp.by # "timeout" ) =>
        rx_resp.resp = Some(rx_in.frame.params)

----------------------------------------------------------------------------
(* C11 *)

\* C11: every call of _read_response comes to an end, on a silent bus, on an
\* endless stream of non-sync bytes and on isolated sync bytes alike; when no
\* two consecutive sync bytes were seen before the timeout ran out it ends
\* with the failure result.
C11_ScanTerminates ==
    (rx_pc = "call") ~>
        (rx_pc = "done" /\ (rx_resp.by = "timeout" => rx_resp.resp = None))

\* the scan of an endless stream of isolated sync bytes ended by the timeout
C11_Witness ==
    /\ rx_pc = "done"
    /\ rx_in.noise = "isolated"
    /\ rx_resp = [resp |-> None, by |-> "timeout"]
    /\ position = UNAVAILABLE

----------------------------------------------------------------------------
(* C12 *)

\* C12: once the two sync bytes were seen, _read_response returns params
\* exactly when the id byte is the servo asked for and the body was read in
\* full (the length byte leaves room for error byte and checksum, and that
\* many bytes arrived); a short read and a differing id give the failure
\* result; the params returned are the bytes between the error byte and the
\* checksum, whatever the error byte holds.
C12_ParamsIffIdAndFullBody ==
    /\ rx_pc # "raised"
    /\ (rx_pc \in {"return", "done"} /\ rx_resp.by \notin {"port", "timeout"}) =>
          LET w == wire
              body_read == /\ Len(w) >= 2
                           /\ w[2] >= 2
                           /\ Len(w) - 2 >= w[2]
          IN  /\ rx_resp.resp # None <=> (body_read /\ w[1] = rx_in.servo_id)
              /\ rx_resp.resp # None =>
                    rx_resp.resp[1] = [i \in 1 .. (w[2] - 2) |-> w[i + 3]]

\* the servo asked for answered in full with the error byte set, and its
\* params were returned
C12_Witness ==
    /\ rx_pc = "done"
    /\ rx_in.stray = << >>
    /\ rx_in.frame = [id |-> rx_in.servo_id, error |-> 32, params |-> << 0, 8 >>]
    /\ rx_in.sent = Len(ResponseFrame(rx_in.frame))
    /\ rx_resp = [resp |-> Some(<< 0, 8 >>), by |-> "params"]
    /\ position = 2048

----------------------------------------------------------------------------
(* C13 *)

\* C13: the frame _write_packet sends is 0xFF 0xFF, the id, the length, the
\* instruction, the params and one checksum byte, where the length is the
\* number of params plus 2 and the checksum is the low byte of the complement
\* of id + length + instruction + params; for id 1, READ and params 56, 2 it
\* is FF FF 01 04 02 38 02 BE.
C13_RequestFrameLayout ==
    (call.op = "write_packet" /\ result # None /\ call.ser = "open") =>
        /\ result[1].wrote # None
        /\ LET f == result[1].wrote[1]
                n == Len(call.params)
                total == call.servo_id + (n + 2) + call.instruction
                           + Sum(call.params)
           IN  /\ Len(f) = n + 6
               /\ f[1] = 255 /\ f[2] = 255
               /\ f[3] = call.servo_id
               /\ f[4] = n + 2
               /\ f[5] = call.instruction
               /\ \A i \in 1 .. n : f[5 + i] = call.params[i]
               /\ f[n + 6] \in 0 .. 255
               /\ (f[n + 6] + total) % 256 = 255
               /\ (call.servo_id = 1 /\ call.instruction = 2
                      /\ call.params = << 56, 2 >>) =>
                     f = << 255, 255, 1, 4, 2, 56, 2, 190 >>

\* the read request for the present position of servo 1 was written
C13_Witness ==
    /\ call.op = "write_packet"
    /\ call.servo_id = 1
    /\ call.instruction = INST_READ
    /\ call.params = << SMS_STS_PRESENT_POSITION, 2 >>
    /\ result # None
    /\ result[1].ret
    /\ result[1].wrote = Some(<< 255, 255, 1, 4, 2, 56, 2, 190 >>)

----------------------------------------------------------------------------
(* C14 *)

\* C14: decoding a response that carries the matching checksum succeeds with
\* its params, and decoding a response in which one byte of id, length, error
\* or params was changed to another value does not pass for a valid one: the
\* decode path tells the mismatch.
C14_ChecksumMismatchDetectable ==
    (call.op = "read_response" /\ result # None
       /\ call.frame.id = call.servo_id) =>
        IF call.flip = 0
        THEN result[1] = [resp |-> Some(call.frame.params), by |-> "params"]
        ELSE result[1].resp = None

----------------------------------------------------------------------------
(* C15 *)

\* C15: for raw and offset within 0..4095 the delta get_angles works with,
\* after the wraparound adjustment, is at most 2048 in absolute value and
\* congruent to raw - offset modulo 4096, and the angle lies within -180 and
\* 180 degrees.
C15_ShortestSignedArc ==
    (call.op = "angle" /\ result # None) =>
        LET delta == result[1].delta
        IN  /\ delta >= -2048 /\ delta <= 2048
            /\ (delta - (call.raw - call.offset)) % 4096 = 0
            /\ result[1].angle # None
            /\ result[1].angle[1] >= -18000
            /\ result[1].angle[1] <= 18000

\* the reading just below the zero crossing, home at 0: one count backwards
C15_Witness ==
    /\ call = [op |-> "angle", raw |-> 4095, offset |-> 0, direction |-> 1]
    /\ result = Some([delta |-> -1, angle |-> Some(-9)])

----------------------------------------------------------------------------
(* C16 *)

\* C16: a calibrate_home call in which every configured servo answered
\* leaves every configured id's offset equal to the position just read and
\* the file holding exactly the arm's offsets and directions; get_angles on
\* those same positions then gives 0.0 for every id, whatever the id's
\* direction.
C16_CalibrationZeroes ==
    [][\A a \in Sides :
          (calib_ret'[a] # calib_ret[a] /\ calib_ret'[a].outcome = "saved") =>
              LET read == calib_ret'[a].read[1]
              IN  /\ DOMAIN home_offsets'[a] = ServoIds
                  /\ \A sid \in ServoIds :
                        /\ read[sid] # UNAVAILABLE
                        /\ home_offsets'[a][sid] = read[sid]
                        /\ AngleOf(read[sid],
                                   Get(home_offsets'[a], sid, DEFAULT_OFFSET),
                                   Get(directions'[a], sid, DEFAULT_DIRECTION))
                              = Some(0)
                  /\ files'[SavePath(a)]
                        = ConfigJson(home_offsets'[a], directions'[a])]_vars

\* the left arm, servo 1 reversed, was calibrated at 4000 and reads 0.0
C16_Witness ==
    /\ leader["left"] = "open"
    /\ calib_ret["left"].outcome = "saved"
    /\ calib_ret["left"].read = Some(AllAt(4000))
    /\ home_offsets["left"] = AllAt(4000)
    /\ 1 \in DOMAIN directions["left"]
    /\ directions["left"][1] = -1
    /\ files[SavePath("left")] = ConfigJson(home_offsets["left"], directions["left"])
    /\ get_angles("left", AllAt(4000)) = [sid \in ServoIds |-> Some(0)]

----------------------------------------------------------------------------
(* C17 *)

\* C17: when an arm has saved its calibration state, a LeaderArm constructed
\* with the same config path holds the same offsets and the same directions,
\* under the integer ids, and computes from the same raw positions the same
\* angles as the arm that saved.
C17_SaveLoadRoundTrip ==
    (call.op = "save_load" /\ result # None /\ result[1].phase = "loaded") =>
        /\ DOMAIN result[1].home_offsets = ServoIds
        /\ DOMAIN result[1].directions = ServoIds
        /\ result[1].home_offsets = call.home_offsets
        /\ result[1].directions = call.directions
        /\ result[1].angles
              = [sid \in ServoIds |->
                   AngleOf(call.raw[sid], call.home_offsets[sid],
                           call.directions[sid])]

\* offsets 4000 and reversed directions came back from the file, and the
\* angles at 100 are those of the arm that saved
C17_Witness ==
    /\ call.op = "save_load"
    /\ call.home_offsets = AllAt(4000)
    /\ call.directions = AllAt(-1)
    /\ call.raw = AllAt(100)
    /\ result # None
    /\ result[1].phase = "loaded"
    /\ result[1].home_offsets = AllAt(4000)
    /\ result[1].directions = AllAt(-1)
    /\ result[1].angles = [sid \in ServoIds |-> Some(-1723)]

----------------------------------------------------------------------------
(* C18 *)

\* C18: an arm that has been constructed has an offset entry and a direction
\* entry for every configured servo id, whether its calibration file was
\* missing, unparsable, or listed only some ids or only one section.
C18_EveryIdHasEntries ==
    \A a \in Sides :
        leader[a] = "open" =>
            /\ ServoIds \subseteq DOMAIN home_offsets[a]
            /\ ServoIds \subseteq DOMAIN directions[a]

----------------------------------------------------------------------------
(* C19 *)

\* C19: a construction during which loading the calibration file reported an
\* error ends with the defaults for both the offsets and the directions:
\* nothing of the corrupt file is merged into the state.
C19_ErrorKeepsDefaults ==
    [][\A a \in Sides :
          (leader[a] = "none" /\ leader'[a] = "open" /\ LoadReportsError(a)) =>
              /\ home_offsets'[a] = [i \in ServoIds |-> DEFAULT_OFFSET]
              /\ directions'[a] = [i \in ServoIds |-> DEFAULT_DIRECTION]]_vars

----------------------------------------------------------------------------
(* C20 *)

\* C20: a set_direction call with a direction other than +1 and -1 changes
\* neither the offsets nor the directions nor any file; a call with +1 or -1
\* sets that id's direction, leaves the directions of the other ids, all
\* offsets and the other arm alone, and has written the arm's state to the
\* file when it returns.
C20_SetDirectionValidated ==
    [][(call.op = "set_direction" /\ result = Some("constructed")
          /\ result' # result) =>
          LET a == call.side
              sid == call.servo_id
              d == call.direction
          IN  /\ home_offsets' = home_offsets
              /\ \A b \in Sides \ {a} : directions'[b] = directions[b]
              /\ IF d \notin {1, -1}
                 THEN /\ directions' = directions
                      /\ files' = files
                      /\ result' = Some("rejected")
                 ELSE /\ DOMAIN directions'[a] = DOMAIN directions[a] \cup {sid}
                      /\ directions'[a][sid] = d
                      /\ \A i \in DOMAIN directions[a] \ {sid} :
                            directions'[a][i] = directions[a][i]
                      /\ files'[SavePath(a)]
                            = ConfigJson(home_offsets'[a], directions'[a])
                      /\ \A p \in Paths \ {SavePath(a)} : files'[p] = files[p]
                      /\ result' = Some("saved")]_vars

\* direction 0 for servo 7 of the left arm was turned down, servo 7 is still
\* at +1 and no file was written
C20_Witness ==
    /\ call = [op |-> "set_direction", side |-> "left", servo_id |-> 7,
               direction |-> 0]
    /\ result = Some("rejected")
    /\ leader["left"] = "open"
    /\ directions["left"] = [i \in ServoIds |-> DEFAULT_DIRECTION]
    /\ \A p \in Paths : ~files[p].exists

----------------------------------------------------------------------------
(* C21 *)

\* C21: find_ports' result has an entry for every role of the target map; a
\* role no enumerated device matches is mapped to None, any other role to a
\* device; and the success flag is false exactly when some role is mapped to
\* None.
C21_EveryRoleReported ==
    loc_pc = "done" =>
        /\ DOMAIN loc_found.dual = DOMAIN loc_targets
        /\ \A r \in DOMAIN loc_targets :
              loc_found.dual[r] = None <=>
                  \A i \in 1 .. Len(loc_enum) :
                      ~DualMatch(loc_enum[i], loc_targets[r])
        /\ loc_found.all_success = FALSE <=>
              \E r \in DOMAIN loc_targets : loc_found.dual[r] = None

\* the left role resolved, the right one did not, and the flag is false
C21_Witness ==
    /\ loc_pc = "done"
    /\ loc_targets = [left |-> StrAB, right |-> StrC]
    /\ Len(loc_enum) = 1
    /\ loc_found.dual["left"] = Some(DevicePaths[1])
    /\ loc_found.dual["right"] = None
    /\ loc_found.all_success = FALSE

----------------------------------------------------------------------------
(* C22 *)

\* C22: map_gripper gives (angle - open) / (close - open) clipped to 0..1:
\* 0.0 at angle = open, 1.0 at angle = close, never outside 0..1, the nearest
\* value to the exact ratio in between; and 0.0 whenever close and open are
\* less than 0.1 degree apart, a zero span included.
C22_GripperRatioClipped ==
    (call.op = "map_gripper" /\ result # None) =>
        LET r == result[1]
            span == call.close - call.open
            d == IF span < 0 THEN 0 - span ELSE span
            x == IF span < 0 THEN call.open - call.raw_deg
                 ELSE call.raw_deg - call.open
        IN  IF d < 10 THEN r = 0
            ELSE /\ r >= 0 /\ r <= 10000
                 /\ call.raw_deg = call.open => r = 0
                 /\ call.raw_deg = call.close => r = 10000
                 /\ r = 0 => 2 * x * 10000 <= d
                 /\ r = 10000 => 2 * x * 10000 >= 2 * 10000 * d - d
                 /\ (r > 0 /\ r < 10000) =>
                       /\ 2 * (r * d - x * 10000) <= d
                       /\ 2 * (x * 10000 - r * d) <= d

\* half way between open at 50 degrees and close at 0 degrees
C22_Witness ==
    /\ call = [op |-> "map_gripper", raw_deg |-> 2500, open |-> 5000, close |-> 0]
    /\ result = Some(5000)

----------------------------------------------------------------------------
(* C23 *)

\* C23: inside the running loop every tick ends with the pacing step, a tick
\* that skipped a pairing for an unavailable leader angle included: no step
\* goes from the processing of one tick straight to the start of the next.
C23_TickEndsWithPacing ==
    [][pc.at = "loop" =>
          pc' \notin {At("loop", "left"), At("loop", "-")}]_vars

----------------------------------------------------------------------------
(* C24 *)

\* C24: on an open port every request frame (ping, read, torque, goal
\* position, id and lock writes) is written right after a flushInput, and no
\* frame is written without one; on a closed or missing port nothing is
\* flushed or written, and _write_packet returns False after one attempt.
C24_FlushBeforeEveryWrite ==
    (call.op \in {"write_packet", "enable_torque", "set_position", "change_id"}
        /\ result # None) =>
        LET io == result[1].io
            frames == IF call.op = "change_id" THEN 3 ELSE 1
        IN  /\ \A i \in 1 .. Len(io) :
                  io[i].ev = "write" =>
                      i > 1 /\ io[i - 1].ev = "flushInput"
            /\ call.ser = "open" =>
                  Cardinality({i \in 1 .. Len(io) : io[i].ev = "write"}) = frames
            /\ call.ser # "open" => io = << >>
            /\ call.op = "write_packet" =>
                  /\ result[1].ret = (call.ser = "open")
                  /\ call.ser = "open" =>
                        io = << [ev |-> "flushInput", data |-> << >>],
                                [ev |-> "write", data |-> result[1].wrote[1]] >>

\* set_position(1, 2048, 300) on an open port: one flush, then the frame
C24_Witness ==
    /\ call = [op |-> "set_position", servo_id |-> 1, position |-> 2048,
               speed |-> 300, ser |-> "open"]
    /\ result # None
    /\ Len(result[1].io) = 2
    /\ result[1].io[1].ev = "flushInput"
    /\ result[1].io[2] =
          [ev |-> "write", data |-> << 255, 255, 1, 7, 3, 42, 0, 8, 44, 1, 149 >>]

----------------------------------------------------------------------------
(* C25 *)

\* C25: a read never returns the data of a servo's answer to an earlier
\* request: after an exchange that timed out, the late answer is not what
\* the next get_position of the same servo id reports as the current sample.
C25_NoStaleSample ==
    (call.op = "get_position_late" /\ result # None
        /\ call.late_id = call.servo_id /\ call.late_pos # call.now_pos) =>
        result[1] # call.late_pos

----------------------------------------------------------------------------
(* C27 *)

\* C27: get_position returns the sentinel or an encoder value in 0..4095; a
\* two-byte response that decodes to a larger 16-bit value is not handed to
\* the caller as a sample.
C27_PositionInEncoderRange ==
    rx_pc = "done" =>
        (position = -1 \/ (position >= 0 /\ position <= 4095))

----------------------------------------------------------------------------
(* C28 *)

\* C28: in every state of a LeaderArm, after construction from any parsable
\* file and any sequence of set_direction and calibrate_home calls, each
\* stored direction is +1 or -1.
C28_DirectionsAreSigns ==
    \A a \in Sides : \A sid \in DOMAIN directions[a] :
        directions[a][sid] \in {1, -1}

----------------------------------------------------------------------------
(* C29 *)

\* C29: a physical port is open in at most one arm instance at a time: the
\* locator and the pairing setup never give one device path to two roles.
C29_OnePortOneArm ==
    LET opened ==
          {LeaderRole[s] : s \in {t \in Sides : leader[t] = "open"}}
            \cup {FollowerRole[s] :
                     s \in {t \in Sides : follower[t] = "connected"}}
    IN  \A r1, r2 \in opened :
            r1 # r2 => found_ports[r1] # found_ports[r2]

----------------------------------------------------------------------------
(* C26 *)

\* C26: change_id(old, new) makes exactly three writes, in this order: lock
\* (55) := 0 to the old id, id (5) := new to the old id, lock (55) := 1 to the
\* new id. It reads no acknowledgement in between, so whichever frame the bus
\* drops, the lock frame is still sent and the message is still printed.
C26_ThreeWritesNoAck ==
    (call.op = "change_id" /\ result # None) =>
        LET r == result[1]
            f1 == RequestFrame(call.old_id, 3, << 55, 0 >>)
            f2 == RequestFrame(call.old_id, 3, << 5, call.new_id >>)
            f3 == RequestFrame(call.new_id, 3, << 55, 1 >>)
        IN  /\ r.calls = << << call.old_id, 3, << 55, 0 >> >>,
                            << call.old_id, 3, << 5, call.new_id >> >>,
                            << call.new_id, 3, << 55, 1 >> >> >>
            /\ call.ser = "open" =>
                  << r.io[2].data, r.io[4].data, r.io[6].data >> = << f1, f2, f3 >>
            /\ call.ser = "open" => Len(r.io) = 6
            /\ r.reads = 0
            /\ r.printed = << "Changed ID", call.old_id, call.new_id >>

\* change_id(1, 2) on an open port with the second frame lost on the bus
C26_Witness ==
    /\ call = [op |-> "change_id", old_id |-> 1, new_id |-> 2, lost |-> 2,
               ser |-> "open"]
    /\ result # None
    /\ result[1].io[6].data = << 255, 255, 2, 4, 3, 55, 1, 190 >>
    /\ result[1].printed = << "Changed ID", 1, 2 >>

----------------------------------------------------------------------------
(* C30 *)

\* C30: when the setup of a pairing fails at any step (leader open, leader
\* torque release, follower construction, follower connect), every transport
\* opened so far is closed before the pairing is discarded: a discarded
\* pairing has no open leader transport and no partially connected follower.
C30_DiscardedPairingHoldsNothing ==
    \A side \in Sides :
        arms[side] = "None" =>
            /\ leader[side] # "open"
            /\ follower[side] \notin {"partial", "connected"}

====
